---- MODULE Spec2Model ----
(***************************************************************************)
(* The chat core of frontend/src/pages/Index.tsx (hook useChatState):      *)
(* the request gate (processingRef), the stream reader and line decoder    *)
(* of processChat with its JSON repair attempts, the conversation state    *)
(* (messages, isTyping, processingSteps, currentSession), the settle       *)
(* timer, addMessage, regenerateMessage and clearChat.                     *)
(*                                                                         *)
(* Text is a sequence of one-character strings.  JSON.parse is modelled    *)
(* by a recursive-descent parser over that text for the JSON the wire      *)
(* uses: objects, arrays, strings, the three literals, blanks.             *)
(***************************************************************************)
EXTENDS Integers, Sequences, FiniteSets, TLC

(* ----------------------------- text ----------------------------------- *)

NL == "\n"
QT == "\""
SP == " "

\* String.prototype.startsWith / indexOf for the one character '{'
RECURSIVE IndexOf(_, _, _)
IndexOf(s, c, i) ==
  IF i > Len(s) THEN 0 ELSE IF s[i] = c THEN i ELSE IndexOf(s, c, i + 1)

\* String.prototype.trim: blanks removed at both ends
RECURSIVE TrimLeft(_)
TrimLeft(s) ==
  IF s # <<>> /\ Head(s) \in {SP, NL} THEN TrimLeft(Tail(s)) ELSE s

RECURSIVE TrimRight(_)
TrimRight(s) ==
  IF s # <<>> /\ s[Len(s)] \in {SP, NL}
    THEN TrimRight(SubSeq(s, 1, Len(s) - 1)) ELSE s

trim(s) == TrimRight(TrimLeft(s))

\* chunk.split('\n'): always at least one line
RECURSIVE split(_)
split(s) ==
  LET k == IndexOf(s, NL, 1) IN
  IF k = 0 THEN <<s>>
  ELSE <<SubSeq(s, 1, k - 1)>> \o split(SubSeq(s, k + 1, Len(s)))

(* ----------------------------- JSON ----------------------------------- *)

Undefined == [t |-> "undefined", v |-> <<>>]
Str(chars) == [t |-> "str", v |-> chars]
Obj(pairs) == [t |-> "obj", v |-> pairs]
Arr(elems) == [t |-> "arr", v |-> elems]
Lit(name)  == [t |-> "lit", v |-> name]

\* The outcome of a parse: a value and the index after it, or the kind of
\* SyntaxError and the column its message reports.
Ok(v, nxt) == [ok |-> TRUE, val |-> v, next |-> nxt, err |-> "", col |-> 0]
Fail(kind, col) ==
  [ok |-> FALSE, val |-> Undefined, next |-> 0, err |-> kind, col |-> col]

RECURSIVE SkipWs(_, _)
SkipWs(s, i) == IF i <= Len(s) /\ s[i] = SP THEN SkipWs(s, i + 1) ELSE i

ReadString(s, i) ==
  LET j == IndexOf(s, QT, i + 1) IN
  IF j = 0 THEN Fail("unterminated string", Len(s) + 1)
  ELSE Ok(Str(SubSeq(s, i + 1, j - 1)), j + 1)

StartsAt(s, i, word) ==
  /\ i + Len(word) - 1 <= Len(s)
  /\ SubSeq(s, i, i + Len(word) - 1) = word

ReadKeyword(s, i) ==
  IF StartsAt(s, i, <<"t", "r", "u", "e">>) THEN Ok(Lit("true"), i + 4)
  ELSE IF StartsAt(s, i, <<"f", "a", "l", "s", "e">>) THEN Ok(Lit("false"), i + 5)
  ELSE IF StartsAt(s, i, <<"n", "u", "l", "l">>) THEN Ok(Lit("null"), i + 4)
  ELSE Fail("unexpected keyword", i)

RECURSIVE ParseValue(_, _), ParseMember(_, _, _), ParseElems(_, _, _)

ParseValue(s, i) ==
  LET j == SkipWs(s, i) IN
  IF j > Len(s) THEN Fail("unexpected end of data", j)
  ELSE IF s[j] = QT THEN ReadString(s, j)
  ELSE IF s[j] = "{" THEN
    LET k == SkipWs(s, j + 1) IN
    IF k > Len(s) THEN Fail("end of data while reading object contents", k)
    ELSE IF s[k] = "}" THEN Ok(Obj(<<>>), k + 1)
    ELSE IF s[k] = QT THEN ParseMember(s, k, <<>>)
    ELSE Fail("expected property name or '}'", k)
  ELSE IF s[j] = "[" THEN
    LET k == SkipWs(s, j + 1) IN
    IF k > Len(s) THEN Fail("end of data while reading array contents", k)
    ELSE IF s[k] = "]" THEN Ok(Arr(<<>>), k + 1)
    ELSE ParseElems(s, k, <<>>)
  ELSE IF s[j] \in {"t", "f", "n"} THEN ReadKeyword(s, j)
  ELSE Fail("unexpected character", j)

\* s[i] is the quote opening a property name
ParseMember(s, i, acc) ==
  LET key == ReadString(s, i) IN
  IF ~key.ok THEN key ELSE
  LET c == SkipWs(s, key.next) IN
  IF c > Len(s) THEN Fail("end of data after property name when ':' was expected", c)
  ELSE IF s[c] # ":" THEN Fail("expected ':' after property name in object", c)
  ELSE
  LET val == ParseValue(s, c + 1) IN
  IF ~val.ok THEN val ELSE
  LET a == SkipWs(s, val.next)
      all == Append(acc, [k |-> key.val.v, v |-> val.val]) IN
  IF a > Len(s) THEN Fail("end of data after property value in object", a)
  ELSE IF s[a] = "}" THEN Ok(Obj(all), a + 1)
  ELSE IF s[a] = "," THEN
    LET p == SkipWs(s, a + 1) IN
    IF p > Len(s) THEN Fail("end of data when property name was expected", p)
    ELSE IF s[p] = QT THEN ParseMember(s, p, all)
    ELSE Fail("expected double-quoted property name", p)
  ELSE Fail("expected ',' or '}' after property value in object", a)

ParseElems(s, i, acc) ==
  LET val == ParseValue(s, i) IN
  IF ~val.ok THEN val ELSE
  LET a == SkipWs(s, val.next)
      all == Append(acc, val.val) IN
  IF a > Len(s) THEN Fail("end of data when ',' or ']' was expected", a)
  ELSE IF s[a] = "]" THEN Ok(Arr(all), a + 1)
  ELSE IF s[a] = "," THEN ParseElems(s, a + 1, all)
  ELSE Fail("expected ',' or ']' after array element", a)

\* JSON.parse(text)
JSONparse(s) ==
  LET r == ParseValue(s, 1) IN
  IF ~r.ok THEN r ELSE
  LET k == SkipWs(s, r.next) IN
  IF k <= Len(s)
    THEN Fail("unexpected non-whitespace character after JSON data", k)
    ELSE r

\* data.<key>: the last property of that name, undefined when there is none
\* or when data is no object
RECURSIVE Lookup(_, _, _)
Lookup(pairs, key, i) ==
  IF i = 0 THEN Undefined
  ELSE IF pairs[i].k = key THEN pairs[i].v ELSE Lookup(pairs, key, i - 1)

Prop(data, key) ==
  IF data.t = "obj" THEN Lookup(data.v, key, Len(data.v)) ELSE Undefined

(* ------------------------ names on the wire --------------------------- *)

kType           == <<"t", "y", "p", "e">>
kMessage        == <<"m", "e", "s", "s", "a", "g", "e">>
kResponse       == <<"r", "e", "s", "p", "o", "n", "s", "e">>
kSessionId      == <<"s", "e", "s", "s", "i", "o", "n", "_", "i", "d">>
kCitationArray  == <<"c", "i", "t", "a", "t", "i", "o", "n", "_", "a", "r", "r", "a", "y">>
kProcessingStep == <<"p", "r", "o", "c", "e", "s", "s", "i", "n", "g", "_", "s", "t", "e", "p">>
kComplete       == <<"c", "o", "m", "p", "l", "e", "t", "e">>

\* The texts of the synthesized bot messages (each held as one symbol)
ErrGeneric     == Str(<<"Sorry, there was an error processing your request. Please try again.">>)
ErrIncomplete  == Str(<<"We didn't receive a complete response from our servers. This might be due to a timeout or connection issue. Please try a shorter query or try again later.">>)
ErrUnreachable == Str(<<"Sorry, we couldn't reach our servers. Please check your internet connection and try again.">>)
ErrEmptyBody   == Str(<<"We received an empty response from our servers. Please try again.">>)
ErrResponseData == Str(<<"Sorry, there was an error processing the response data. This might be due to a temporary issue with our servers. Please try again in a moment.">>)
ErrorTexts == {ErrGeneric, ErrIncomplete, ErrUnreachable, ErrEmptyBody,
               ErrResponseData}

\* s.includes(sub)
Includes(s, sub) ==
  \E i \in 1..(Len(s) - Len(sub) + 1) : SubSeq(s, i, i + Len(sub) - 1) = sub

\* What processChat throws, or what fetch and the reader reject with
Thrown(syntax, message) == [syntax |-> syntax, message |-> message]
ThrownStatus ==
  Thrown(FALSE, <<"A", "P", "I", SP, "r", "e", "q", "u", "e", "s", "t", SP, "f", "a", "i", "l", "e", "d", SP, "w", "i", "t", "h", SP, "s", "t", "a", "t", "u", "s", SP, "5", "0", "0">>)
ThrownNoBody ==
  Thrown(FALSE, <<"R", "e", "s", "p", "o", "n", "s", "e", SP, "b", "o", "d", "y", SP, "i", "s", SP, "n", "u", "l", "l">>)
ThrownIncomplete ==
  Thrown(FALSE, <<"N", "o", SP, "c", "o", "m", "p", "l", "e", "t", "e", SP, "r", "e", "s", "p", "o", "n", "s", "e", SP, "r", "e", "c", "e", "i", "v", "e", "d", SP, "f", "r", "o", "m", SP, "A", "P", "I">>)
\* The TypeError of a failed fetch or read, as the engine words it
ThrownTransport(eng) ==
  IF eng = "SpiderMonkey"
    THEN Thrown(FALSE, <<"N", "e", "t", "w", "o", "r", "k", "E", "r", "r", "o", "r", SP, "w", "h", "e", "n", SP, "a", "t", "t", "e", "m", "p", "t", "i", "n", "g", SP, "t", "o", SP, "f", "e", "t", "c", "h", SP, "r", "e", "s", "o", "u", "r", "c", "e", ".">>)
    ELSE Thrown(FALSE, <<"F", "a", "i", "l", "e", "d", SP, "t", "o", SP, "f", "e", "t", "c", "h">>)

\* A catch block with one message for everything (not what the code does)
errorMessageOfAny(error) == ErrGeneric

\* The message the outer catch block picks for what was thrown
errorMessageOf(error) ==
  IF error.syntax /\ Includes(error.message, <<"J", "S", "O", "N">>)
    THEN ErrResponseData
  ELSE IF Includes(error.message, <<"N", "o", SP, "c", "o", "m", "p", "l", "e", "t", "e", SP, "r", "e", "s", "p", "o", "n", "s", "e", SP, "r", "e", "c", "e", "i", "v", "e", "d">>)
    THEN ErrIncomplete
  ELSE IF Includes(error.message, <<"A", "P", "I", SP, "r", "e", "q", "u", "e", "s", "t", SP, "f", "a", "i", "l", "e", "d">>)
    THEN ErrUnreachable
  ELSE IF Includes(error.message, <<"R", "e", "s", "p", "o", "n", "s", "e", SP, "b", "o", "d", "y", SP, "i", "s", SP, "n", "u", "l", "l">>)
    THEN ErrEmptyBody
  ELSE ErrGeneric

\* JavaScript truthiness of a parsed value
Truthy(v) ==
  \/ v.t \in {"obj", "arr"}
  \/ v.t = "str" /\ v.v # <<>>
  \/ v = Lit("true")

(* --------------------- the line loop of processChat ------------------- *)

\* A decoder that closes an object left open (not what the code does)
sanitizeLineClosing(rawLine) ==
  LET from == IF rawLine # <<>> /\ Head(rawLine) = "{" THEN rawLine
              ELSE LET jsonStart == IndexOf(rawLine, "{", 1) IN
                   IF jsonStart > 0 THEN SubSeq(rawLine, jsonStart, Len(rawLine))
                   ELSE rawLine
  IN IF from # <<>> /\ from[Len(from)] # "}" THEN Append(from, "}") ELSE from

\* A decoder that parses the line as it arrives (not what the code does)
sanitizeLineAsIs(rawLine) ==
  rawLine

sanitizeLine(rawLine) ==
  IF rawLine # <<>> /\ Head(rawLine) = "{" THEN rawLine
  ELSE LET jsonStart == IndexOf(rawLine, "{", 1) IN
       IF jsonStart > 0 THEN SubSeq(rawLine, jsonStart, Len(rawLine)) ELSE rawLine

\* The try block of a line throws: JSON.parse fails, or data is null and
\* data.type is a TypeError.
Throws(r) == ~r.ok \/ r.val = Lit("null")

\* The effect of one parsed frame on the locals of the invocation and on the
\* queued state updates.  snap is state.currentSession as the invocation's
\* closure holds it.
\* A dispatch that takes every other kind for a progress note (not what the
\* code does)
DispatchAnyKind(L, data, snap) ==
  LET type == Prop(data, kType)
      step == [message |-> Prop(data, kMessage), collapsed |-> FALSE,
               completed |-> FALSE] IN
  IF type = Str(kComplete) THEN
    [L EXCEPT !.responseData = data,
              !.isComplete = TRUE,
              !.currentSession =
                 IF Truthy(Prop(data, kSessionId)) /\ ~Truthy(snap)
                   THEN Prop(data, kSessionId) ELSE @]
  ELSE [L EXCEPT !.collectedSteps = Append(@, step),
                 !.processingSteps = Append(@, step)]

Dispatch(L, data, snap) ==
  LET type == Prop(data, kType) IN
  IF type = Str(kProcessingStep) THEN
    LET step == [message |-> Prop(data, kMessage), collapsed |-> FALSE,
                 completed |-> FALSE] IN
    [L EXCEPT !.collectedSteps = Append(@, step),
              !.processingSteps = Append(@, step)]
  ELSE IF type = Str(kComplete) THEN
    [L EXCEPT !.responseData = data,
              !.isComplete = TRUE,
              !.currentSession =
                 IF Truthy(Prop(data, kSessionId)) /\ ~Truthy(snap)
                   THEN Prop(data, kSessionId) ELSE @]
  ELSE L

\* The repair attempts on a line that is not the last of its chunk.  The
\* outcome is the replacement line when the loop re-processes it, <<>> when
\* the line is dropped.  Only an engine whose SyntaxError messages name a
\* column and read 'unterminated string' / 'unexpected character' gets here.
FixedLine(line, r) ==
  IF r.err = "unterminated string" THEN Append(line, QT)
  ELSE IF r.err = "unexpected character" /\ r.col > 0 /\ r.col < Len(line)
    THEN SubSeq(line, 1, r.col - 1) \o SubSeq(line, r.col + 2, Len(line))
  ELSE <<>>

\* A repair that re-processes the line without parsing the fix first (not
\* what the code does)
RepairUnchecked(line, r, eng) ==
  IF r.ok \/ eng # "SpiderMonkey" THEN <<>>
  ELSE FixedLine(line, r)

Repair(line, r, eng) ==
  IF r.ok \/ eng # "SpiderMonkey" THEN <<>>
  ELSE LET fixedLine == FixedLine(line, r) IN
       IF fixedLine = <<>> THEN <<>>
       ELSE LET f == JSONparse(fixedLine) IN
            IF Throws(f) THEN <<>>
            ELSE IF Prop(f.val, kType) \in {Str(kProcessingStep), Str(kComplete)}
              THEN fixedLine ELSE <<>>

RECURSIVE ProcessLines(_, _, _, _, _)
ProcessLines(lines, i, L, snap, eng) ==
  IF i > Len(lines) THEN L
  ELSE
    LET trimmed == trim(lines[i]) IN
    IF trimmed = <<>> THEN ProcessLines(lines, i + 1, L, snap, eng)
    ELSE
      LET line == sanitizeLine(trimmed)
          r == JSONparse(line) IN
      IF ~Throws(r) THEN ProcessLines(lines, i + 1, Dispatch(L, r.val, snap), snap, eng)
      ELSE IF i = Len(lines) THEN [L EXCEPT !.currentBuffer = line]
      ELSE
        LET fixedLine == Repair(line, r, eng) IN
        IF fixedLine # <<>>
          THEN ProcessLines([lines EXCEPT ![i] = fixedLine], i, L, snap, eng)
          ELSE ProcessLines(lines, i + 1, L, snap, eng)

\* A pass that forgets what the pass before left in the buffer (not what
\* the code does)
ProcessChunkDropsBuffer(chunk, buffer, collected, steps, session, snap, eng) ==
  LET lines == split(chunk)
      L0 == [collectedSteps |-> collected, processingSteps |-> steps,
             responseData |-> Lit("null"), isComplete |-> FALSE,
             currentSession |-> session, currentBuffer |-> <<>>]
  IN ProcessLines(lines, 1, L0, snap, eng)

\* One pass of the while loop body for one chunk
ProcessChunk(chunk, buffer, collected, steps, session, snap, eng) ==
  LET raw == split(chunk)
      lines == IF Len(buffer) > 0 THEN [raw EXCEPT ![1] = buffer \o @] ELSE raw
      L0 == [collectedSteps |-> collected, processingSteps |-> steps,
             responseData |-> Lit("null"), isComplete |-> FALSE,
             currentSession |-> session, currentBuffer |-> <<>>]
  IN ProcessLines(lines, 1, L0, snap, eng)

\* The lines of a chunk, the buffer prepended to the first
Lines(chunk, buffer) ==
  LET raw == split(chunk) IN
  IF Len(buffer) > 0 THEN [raw EXCEPT ![1] = buffer \o @] ELSE raw

\* The most passes the for loop makes over one line of lines[i..]; n is the
\* number of the pass over line i
RECURSIVE Passes(_, _, _, _)
Passes(lines, i, n, eng) ==
  IF i > Len(lines) THEN 0
  ELSE
    LET rest == Passes(lines, i + 1, 1, eng)
        onward == IF n >= rest THEN n ELSE rest
        trimmed == trim(lines[i]) IN
    IF trimmed = <<>> THEN onward
    ELSE
      LET line == sanitizeLine(trimmed)
          r == JSONparse(line) IN
      IF ~Throws(r) THEN onward
      ELSE IF i = Len(lines) THEN n
      ELSE
        LET fixedLine == Repair(line, r, eng) IN
        IF fixedLine # <<>>
          THEN Passes([lines EXCEPT ![i] = fixedLine], i, n + 1, eng)
          ELSE onward

(* ------------------------- what the backend sends ---------------------- *)

Q(chars) == <<QT>> \o chars \o <<QT>>
Member(k, v) == Q(k) \o <<":">> \o Q(v)

ProgressFrame(msg) ==
  <<"{">> \o Member(kType, kProcessingStep) \o <<",">>
          \o Member(kMessage, msg) \o <<"}">>

CompleteFrame(resp, sid) ==
  <<"{">> \o Member(kType, kComplete) \o <<",">>
          \o Member(kResponse, resp) \o <<",">>
          \o Member(kSessionId, sid) \o <<"}">>

\* What the backend means to send: progress notes and answers
Step(msg) == [kind |-> "processing_step", text |-> msg, sid |-> <<>>]
Answer(resp, sid) == [kind |-> "complete", text |-> resp, sid |-> sid]

\* A line sent as it stands
Raw(line) == [kind |-> "raw", text |-> line, sid |-> <<>>]

WireFrame(f) ==
  IF f.kind = "processing_step" THEN ProgressFrame(f.text)
  ELSE IF f.kind = "raw" THEN f.text
  ELSE CompleteFrame(f.text, f.sid)

\* Newline-delimited frames
RECURSIVE Wire(_)
Wire(frames) ==
  IF frames = <<>> THEN <<>>
  ELSE WireFrame(Head(frames)) \o <<NL>> \o Wire(Tail(frames))

\* A response body: the frames meant, and the text that arrives before the
\* stream ends (the last drop characters never arrive)
Serve(frames, drop) ==
  [frames |-> frames, body |-> SubSeq(Wire(frames), 1, Len(Wire(frames)) - drop)]

ServeStepThenAnswer ==
  Serve(<<Step(<<"a", SP, "b">>), Answer(<<"o", SP, "k">>, <<"s", "1">>)>>, 0)
ServeAnswer == Serve(<<Answer(<<"n", "o">>, <<"s", "2">>)>>, 0)
ServeStepOnly == Serve(<<Step(<<"c">>)>>, 0)

\* The bodies of the specification of the whole core
Served == {ServeStepThenAnswer, ServeAnswer, ServeStepOnly}

ServeScenario ==
  Serve(<<Step(<<"S", "e", "a", "r", "c", "h", "i", "n", "g">>),
          Step(<<"R", "e", "a", "d", "i", "n", "g", SP, "d", "o", "c", "s">>),
          Answer(<<"H", "e", "r", "e", SP, "i", "s", SP, "t", "h", "e", SP,
                   "a", "n", "s", "w", "e", "r">>,
                 <<"a", "b", "c", "1", "2", "3">>)>>, 0)
ServeTwoAnswers ==
  Serve(<<Answer(<<"a">>, <<"s", "1">>), Answer(<<"b">>, <<"s", "2">>)>>, 0)
ServeCutAnswer ==
  Serve(<<Step(<<"c">>), Answer(<<"o", "k">>, <<"s", "1">>)>>, 2)
ServeTwoSteps == Serve(<<Step(<<"c">>), Step(<<"d">>)>>, 0)
ServeNoNewline == Serve(<<Answer(<<"n", SP, "o">>, <<"s", "2">>)>>, 1)
ServeNothing == Serve(<<>>, 0)

\* The bodies of the specification of one stream
ServedStream == {ServeScenario, ServeTwoAnswers, ServeCutAnswer, ServeStepOnly,
                 ServeTwoSteps, ServeNoNewline, ServeNothing}

\* Lines that are no frames: noise, an object followed by a stray brace, a
\* progress frame whose last string is left open, a frame of another kind
Noise == <<"o", "o", "p", "s">>
StrayBrace == <<"{">> \o Member(kType, kComplete) \o <<",">>
                     \o Member(kResponse, <<"x">>) \o <<"}", "}">>
NoClosingQuote(msg) ==
  <<"{">> \o Member(kType, kProcessingStep) \o <<",">>
          \o Q(kMessage) \o <<":", QT>> \o msg \o <<"}">>
OtherKind ==
  <<"{">> \o Member(kType, <<"p", "i", "n", "g">>) \o <<",">>
          \o Member(kMessage, <<"x">>) \o <<"}">>

ServeNoise ==
  Serve(<<Step(<<"c">>), Raw(Noise), Step(<<"d">>),
          Answer(<<"o", "k">>, <<"s", "1">>)>>, 0)
ServeStrayBrace ==
  Serve(<<Raw(StrayBrace), Answer(<<"o", "k">>, <<"s", "1">>)>>, 0)
ServeNoClosingQuote ==
  Serve(<<Raw(NoClosingQuote(<<"c">>)), Answer(<<"o", "k">>, <<"s", "1">>)>>, 0)
ServeOtherKind ==
  Serve(<<Step(<<"c">>), Raw(OtherKind), Step(<<"d">>),
          Answer(<<"o", "k">>, <<"s", "1">>)>>, 0)

\* The stream ends in the line with the stray brace, without a newline
ServeStrayBraceLast == Serve(<<Raw(StrayBrace)>>, 1)

\* The bodies of the specification of the decoder's misses
ServedDecode == {ServeNoise, ServeStrayBrace, ServeNoClosingQuote, ServeOtherKind,
                 ServeStrayBraceLast}

\* A progress frame with characters astray before its message
StrayChars(stray, msg) ==
  <<"{">> \o Member(kType, kProcessingStep) \o <<",">>
          \o Q(kMessage) \o <<":">> \o stray \o Q(msg) \o <<"}">>

ServeTwoStray ==
  Serve(<<Raw(StrayChars(<<"x", "y">>, <<"c">>)),
          Answer(<<"o", "k">>, <<"s", "1">>)>>, 0)
ServeFourStray == Serve(<<Raw(StrayChars(<<"w", "x", "y", "z">>, <<"c">>))>>, 0)

\* A progress frame after noise, and after a word JSON knows
ServeNoisePrefix ==
  Serve(<<Raw(Noise \o ProgressFrame(<<"c">>)),
          Answer(<<"o", "k">>, <<"s", "1">>)>>, 0)
ServeKeywordPrefix ==
  Serve(<<Raw(<<"t", "r", "u", "e", SP>> \o ProgressFrame(<<"c">>)),
          Answer(<<"o", "k">>, <<"s", "1">>)>>, 0)
ServedPrefixed == {ServeNoisePrefix, ServeKeywordPrefix}

\* The same stream without the noise
ServeStepAnswer ==
  Serve(<<Step(<<"c">>), Answer(<<"o", "k">>, <<"s", "1">>)>>, 0)

\* The bodies of the specification of the decoder's repairs
ServedRepair == {ServeTwoStray, ServeFourStray} \cup ServedPrefixed

\* A terminal frame with a citation list, one citation per name
kCompanyName == <<"c", "o", "m", "p", "a", "n", "y", "_", "n", "a", "m", "e">>

RECURSIVE CitationList(_)
CitationList(names) ==
  IF names = <<>> THEN <<>>
  ELSE <<"{">> \o Member(kCompanyName, Head(names)) \o <<"}">>
         \o (IF Len(names) > 1 THEN <<",">> ELSE <<>>)
         \o CitationList(Tail(names))

CitedFrame(resp, names) ==
  <<"{">> \o Member(kType, kComplete) \o <<",">>
          \o Member(kResponse, resp) \o <<",">>
          \o Q(kCitationArray) \o <<":", "[">> \o CitationList(names)
          \o <<"]", "}">>

CitedNames == << <<"b">>, <<"a">> >>
CitedTwice == << <<"a">>, <<"a">> >>
ServeCited == Serve(<<Raw(CitedFrame(<<"o", "k">>, CitedNames))>>, 0)
ServeCitedTwice == Serve(<<Raw(CitedFrame(<<"o", "k">>, CitedTwice))>>, 0)
ServeCitedNone == Serve(<<Raw(CitedFrame(<<"o", "k">>, <<>>))>>, 0)

\* The bodies of the specification of the citations
ServedCited == {ServeCited, ServeCitedTwice, ServeCitedNone, ServeStepOnly}

(* ------------------------------ state --------------------------------- *)

VARIABLES
  messages,         \* state.messages
  isTyping,         \* state.isTyping
  processingSteps,  \* state.processingSteps
  currentSession,   \* state.currentSession (Undefined when absent)
  processingRef,    \* processingRef.current
  call,             \* the processChat invocation that holds the gate
  net,              \* the response body the invocation reads, and how far
  timers,           \* the pending settle timers, oldest first
  requests,         \* the requests sent so far
  localStorage,     \* what the two storage keys hold
  engine            \* the JavaScript engine the page runs on

vars == <<messages, isTyping, processingSteps, currentSession, processingRef,
          call, net, timers, requests, localStorage, engine>>

\* Bounds of the model
MaxTurns == 2
MaxMessages == 3
Stride == 16

Engines == {"SpiderMonkey", "V8"}
Queries == {<<"h", "i">>}

NoCall == [pc |-> "idle", query |-> <<>>, snap |-> Undefined,
           buffer |-> <<>>, collectedSteps |-> <<>>]
\* No response body: none has arrived yet, or its reader has failed
NoNet == [open |-> FALSE, frames |-> <<>>, body |-> <<>>, pos |-> 0]

\* JSON.stringify(value): a property whose value is undefined is left out,
\* an undefined element is written null
Chars(name) ==
  IF name = "true" THEN <<"t", "r", "u", "e">>
  ELSE IF name = "false" THEN <<"f", "a", "l", "s", "e">>
  ELSE <<"n", "u", "l", "l">>

RECURSIVE JSONstringify(_), StringifyPairs(_, _), StringifyElems(_)
JSONstringify(v) ==
  IF v.t = "str" THEN Q(v.v)
  ELSE IF v.t = "lit" THEN Chars(v.v)
  ELSE IF v.t = "arr" THEN <<"[">> \o StringifyElems(v.v) \o <<"]">>
  ELSE IF v.t = "obj" THEN <<"{">> \o StringifyPairs(v.v, TRUE) \o <<"}">>
  ELSE Chars("null")

StringifyPairs(pairs, first) ==
  IF pairs = <<>> THEN <<>>
  ELSE IF Head(pairs).v = Undefined THEN StringifyPairs(Tail(pairs), first)
  ELSE (IF first THEN <<>> ELSE <<",">>)
         \o Q(Head(pairs).k) \o <<":">> \o JSONstringify(Head(pairs).v)
         \o StringifyPairs(Tail(pairs), FALSE)

StringifyElems(elems) ==
  IF elems = <<>> THEN <<>>
  ELSE JSONstringify(Head(elems))
         \o (IF Len(elems) > 1 THEN <<",">> ELSE <<>>)
         \o StringifyElems(Tail(elems))

\* A Message; an absent processingSteps or citations is the empty list
Message(content, sender, type, hasCitations, steps, citations) ==
  [content |-> content, sender |-> sender, type |-> type,
   hasCitations |-> hasCitations, processingSteps |-> steps,
   citations |-> citations]

UserMessage(q) == Message(Str(q), "user", "text", FALSE, <<>>, <<>>)
ErrorMessage(text) == Message(text, "bot", "markdown", FALSE, <<>>, <<>>)

Init ==
  /\ messages = <<>>
  /\ isTyping = FALSE
  /\ processingSteps = <<>>
  /\ currentSession = Undefined
  /\ processingRef = FALSE
  /\ call = NoCall
  /\ net = NoNet
  /\ timers = <<>>
  /\ requests = <<>>
  /\ localStorage = [chatwise_messages |-> <<>>, chatwise_session_id |-> Undefined]
  /\ engine \in Engines

\* The history as the value JSON.stringify is given: a flag that was never
\* set and a list that is absent or empty are properties left out
kSender          == <<"s", "e", "n", "d", "e", "r">>
kContent         == <<"c", "o", "n", "t", "e", "n", "t">>
kHasCitations    == <<"h", "a", "s", "C", "i", "t", "a", "t", "i", "o", "n", "s">>
kProcessingSteps == <<"p", "r", "o", "c", "e", "s", "s", "i", "n", "g", "S", "t", "e", "p", "s">>
kCitations       == <<"c", "i", "t", "a", "t", "i", "o", "n", "s">>
kCollapsed       == <<"c", "o", "l", "l", "a", "p", "s", "e", "d">>
kCompleted       == <<"c", "o", "m", "p", "l", "e", "t", "e", "d">>

Bool(b) == IF b THEN Lit("true") ELSE Lit("false")
Pair(k, v) == [k |-> k, v |-> v]
ListOrAbsent(elems) == IF elems = <<>> THEN Undefined ELSE Arr(elems)

StepValue(step) ==
  Obj(<<Pair(kMessage, step.message),
        Pair(kCollapsed, Bool(step.collapsed)),
        Pair(kCompleted, IF step.completed THEN Lit("true") ELSE Undefined)>>)

MessageValue(m) ==
  Obj(<<Pair(kSender, Str(<<m.sender>>)),
        Pair(kContent, m.content),
        Pair(kType, Str(<<m.type>>)),
        Pair(kHasCitations, Bool(m.hasCitations)),
        Pair(kProcessingSteps,
             ListOrAbsent([i \in 1..Len(m.processingSteps)
                             |-> StepValue(m.processingSteps[i])])),
        Pair(kCitations, ListOrAbsent(m.citations))>>)

HistoryValue(history) ==
  Arr([i \in 1..Len(history) |-> MessageValue(history[i])])

\* The Message and the step a parsed object is read as
ListOf(v) == IF v.t = "arr" THEN v.v ELSE <<>>

StepOf(v) ==
  [message |-> Prop(v, kMessage),
   collapsed |-> Prop(v, kCollapsed) = Lit("true"),
   completed |-> Prop(v, kCompleted) = Lit("true")]

MessageOf(v) ==
  Message(Prop(v, kContent), Prop(v, kSender).v[1], Prop(v, kType).v[1],
          Prop(v, kHasCitations) = Lit("true"),
          [i \in 1..Len(ListOf(Prop(v, kProcessingSteps)))
             |-> StepOf(ListOf(Prop(v, kProcessingSteps))[i])],
          ListOf(Prop(v, kCitations)))

\* getInitialState on what the storage holds: the stored text parsed
getInitialMessages(stored) ==
  LET parsedMessages == JSONparse(JSONstringify(HistoryValue(stored))) IN
  IF Throws(parsedMessages) THEN <<>>
  ELSE [i \in 1..Len(ListOf(parsedMessages.val))
          |-> MessageOf(ListOf(parsedMessages.val)[i])]

\* An effect that writes the token and leaves the stored history (not what
\* the code does)
FlushTokenOnly ==
  localStorage' =
    [chatwise_messages |-> localStorage.chatwise_messages,
     chatwise_session_id |-> IF Truthy(currentSession') THEN currentSession'
                             ELSE localStorage.chatwise_session_id]

\* The effect that runs after every change of state.messages or
\* state.currentSession: the history is written, the token only when set
Flush ==
  localStorage' =
    [chatwise_messages |-> messages',
     chatwise_session_id |-> IF Truthy(currentSession') THEN currentSession'
                             ELSE localStorage.chatwise_session_id]

(* ------------------------- processChat: entry -------------------------- *)

\* An entry that sends no session token (not what the code does)
AdmitWithoutSession(query) ==
  /\ processingRef' = TRUE
  /\ isTyping' = TRUE
  /\ processingSteps' = <<>>
  /\ requests' = Append(requests, [user_query |-> query, session_id |-> Undefined])
  /\ call' = [pc |-> "fetch", query |-> query, snap |-> currentSession,
              buffer |-> <<>>, collectedSteps |-> <<>>]
  /\ net' = NoNet
  /\ UNCHANGED <<currentSession, timers, engine>>

\* An entry that keeps the progress list it finds (not what the code does)
AdmitKeepsSteps(query) ==
  /\ processingRef' = TRUE
  /\ isTyping' = TRUE
  /\ requests' = Append(requests,
       [user_query |-> query,
        session_id |-> IF Truthy(currentSession) THEN currentSession ELSE Undefined])
  /\ call' = [pc |-> "fetch", query |-> query, snap |-> currentSession,
              buffer |-> <<>>, collectedSteps |-> <<>>]
  /\ net' = NoNet
  /\ UNCHANGED <<processingSteps, currentSession, timers, engine>>

\* processChat(query) up to its first await, given the history the caller
\* has just written: the gate is taken, typing starts, the request leaves.
Admit(query) ==
  /\ processingRef' = TRUE
  /\ isTyping' = TRUE
  /\ processingSteps' = <<>>
  /\ requests' = Append(requests,
       [user_query |-> query,
        session_id |-> IF Truthy(currentSession) THEN currentSession ELSE Undefined])
  /\ call' = [pc |-> "fetch", query |-> query, snap |-> currentSession,
              buffer |-> <<>>, collectedSteps |-> <<>>]
  /\ net' = NoNet
  /\ UNCHANGED <<currentSession, timers, engine>>

\* addMessage(content, 'user', 'text') with the gate free
SubmitAdmitted(q) ==
  /\ ~processingRef
  /\ Len(requests) < MaxTurns
  /\ Len(messages) < MaxMessages
  /\ messages' = Append(messages, UserMessage(q))
  /\ Admit(q)
  /\ Flush

\* A rejected submit that wipes the progress list (not what the code does)
SubmitRejectedClearsSteps(q) ==
  /\ processingRef
  /\ Len(messages) < MaxMessages
  /\ messages' = Append(messages, UserMessage(q))
  /\ processingSteps' = <<>>
  /\ UNCHANGED <<isTyping, currentSession, processingRef,
                 call, net, timers, requests, engine>>
  /\ Flush

\* addMessage(content, 'user', 'text') with the gate held
SubmitRejected(q) ==
  /\ processingRef
  /\ Len(messages) < MaxMessages
  /\ messages' = Append(messages, UserMessage(q))
  /\ UNCHANGED <<isTyping, processingSteps, currentSession, processingRef,
                 call, net, timers, requests, engine>>
  /\ Flush

(* ------------------------ processChat: the end ------------------------- *)

\* A failure path that leaves the progress list (not what the code does)
FailedKeepsSteps(text) ==
  /\ isTyping' = FALSE
  /\ messages' = Append(messages, ErrorMessage(text))
  /\ processingRef' = FALSE
  /\ call' = NoCall
  /\ UNCHANGED <<processingSteps, currentSession, timers, requests, engine>>

\* A failure path without the finally block (not what the code does)
FailedKeepsGate(text) ==
  /\ isTyping' = FALSE
  /\ processingSteps' = <<>>
  /\ messages' = Append(messages, ErrorMessage(text))
  /\ call' = NoCall
  /\ UNCHANGED <<processingRef, currentSession, timers, requests, engine>>

\* A failure path that leaves the typing indicator on (not what the code
\* does)
FailedStillTyping(text) ==
  /\ UNCHANGED isTyping
  /\ processingSteps' = <<>>
  /\ messages' = Append(messages, ErrorMessage(text))
  /\ processingRef' = FALSE
  /\ call' = NoCall
  /\ UNCHANGED <<currentSession, timers, requests, engine>>

\* The catch and finally blocks: one synthesized bot message, gate released
Failed(text) ==
  /\ isTyping' = FALSE
  /\ processingSteps' = <<>>
  /\ messages' = Append(messages, ErrorMessage(text))
  /\ processingRef' = FALSE
  /\ call' = NoCall
  /\ UNCHANGED <<currentSession, timers, requests, engine>>

HasCitations(data) ==
  LET c == Prop(data, kCitationArray) IN
  c.t \in {"arr", "str"} /\ Len(c.v) > 0

\* What the settle timer's callback holds
TimerOf(responseData, collectedSteps) ==
  [response |-> Prop(responseData, kResponse),
   hasCitations |-> HasCitations(responseData),
   collectedSteps |-> collectedSteps,
   citations |-> IF HasCitations(responseData)
                   THEN Prop(responseData, kCitationArray).v ELSE <<>>]

MarkLast(steps) ==
  IF steps = <<>> THEN steps
  ELSE [steps EXCEPT ![Len(steps)] = [@ EXCEPT !.completed = TRUE]]

\* After the loop with a terminal frame: typing off, the last step marked,
\* the settle timer armed, gate released (finally)
\* A completion that leaves the typing indicator on (not what the code does)
CompletedStillTyping(L) ==
  LET done == MarkLast(L.collectedSteps) IN
  /\ UNCHANGED isTyping
  /\ processingSteps' =
       IF done = <<>> THEN L.processingSteps
       ELSE SubSeq(L.processingSteps, 1, Len(L.processingSteps) - 1)
              \o <<done[Len(done)]>>
  /\ currentSession' = L.currentSession
  /\ timers' = Append(timers, TimerOf(L.responseData, done))
  /\ processingRef' = FALSE
  /\ call' = NoCall
  /\ UNCHANGED <<messages, requests, engine>>

Completed(L) ==
  LET done == MarkLast(L.collectedSteps) IN
  /\ isTyping' = FALSE
  /\ processingSteps' =
       IF done = <<>> THEN L.processingSteps
       ELSE SubSeq(L.processingSteps, 1, Len(L.processingSteps) - 1)
              \o <<done[Len(done)]>>
  /\ currentSession' = L.currentSession
  /\ timers' = Append(timers, TimerOf(L.responseData, done))
  /\ processingRef' = FALSE
  /\ call' = NoCall
  /\ UNCHANGED <<messages, requests, engine>>

(* ----------------------- the network and reader ------------------------ *)

\* fetch rejects: the request could not be sent
FetchReject ==
  /\ call.pc = "fetch"
  /\ Failed(errorMessageOf(ThrownTransport(engine)))
  /\ UNCHANGED net
  /\ Flush

\* !response.ok
FetchStatus ==
  /\ call.pc = "fetch"
  /\ Failed(errorMessageOf(ThrownStatus))
  /\ UNCHANGED net
  /\ Flush

\* !response.body
FetchNoBody ==
  /\ call.pc = "fetch"
  /\ Failed(errorMessageOf(ThrownNoBody))
  /\ UNCHANGED net
  /\ Flush

\* fetch resolves with a body; the reader is set up
FetchOk(d) ==
  /\ call.pc = "fetch"
  /\ call' = [call EXCEPT !.pc = "read"]
  /\ net' = [open |-> TRUE, frames |-> d.frames, body |-> d.body, pos |-> 0]
  /\ UNCHANGED <<messages, isTyping, processingSteps, currentSession,
                 processingRef, timers, requests, localStorage, engine>>

\* reader.read() resolves with a chunk of n characters
Chunk(n) ==
  /\ call.pc = "read"
  /\ net.open
  /\ n \in 0..(Len(net.body) - net.pos)
  /\ net' = [net EXCEPT !.pos = @ + n]
  /\ LET L == ProcessChunk(SubSeq(net.body, net.pos + 1, net.pos + n),
                           call.buffer, call.collectedSteps, processingSteps,
                           currentSession, call.snap, engine) IN
     IF L.isComplete THEN Completed(L)
     ELSE /\ call' = [call EXCEPT !.buffer = L.currentBuffer,
                                  !.collectedSteps = L.collectedSteps]
          /\ processingSteps' = L.processingSteps
          /\ UNCHANGED <<messages, isTyping, currentSession, processingRef,
                         timers, requests, engine>>
  /\ Flush

\* A chunk cut anywhere in what is left of the body
ChunkAnywhere == \E n \in 0..Len(net.body) : Chunk(n)

\* A chunk that is empty, Stride characters long, or all that is left
ChunkStride == \E n \in {0, Stride, Len(net.body) - net.pos} : Chunk(n)

\* reader.read() resolves with done: no terminal frame was seen
StreamEnd ==
  /\ call.pc = "read"
  /\ net.open
  /\ net.pos = Len(net.body)
  /\ Failed(errorMessageOf(ThrownIncomplete))
  /\ UNCHANGED net
  /\ Flush

\* reader.read() rejects
ReadFail ==
  /\ call.pc = "read"
  /\ Failed(errorMessageOf(ThrownTransport(engine)))
  /\ net' = NoNet
  /\ Flush

(* --------------------------- the settle timer -------------------------- *)

\* content.includes exists on strings and arrays only; otherwise addMessage
\* throws before it updates the state
CanAdd(content) == content.t \in {"str", "arr"}

\* An answer that leaves the citations behind (not what the code does)
AnswerMessageUncited(t) ==
  Message(t.response, "bot", "markdown", FALSE, t.collectedSteps, <<>>)

AnswerMessage(t) ==
  Message(t.response, "bot", "markdown", t.hasCitations, t.collectedSteps,
          t.citations)

\* A settle timer that overwrites the newest entry (not what the code does)
TimerFireReplacesLast ==
  /\ timers # <<>>
  /\ processingSteps' = <<>>
  /\ messages' = IF CanAdd(Head(timers).response)
                   THEN SubSeq(messages, 1, Len(messages) - 1)
                          \o <<AnswerMessage(Head(timers))>>
                   ELSE messages
  /\ timers' = Tail(timers)
  /\ UNCHANGED <<isTyping, currentSession, processingRef, call, net,
                 requests, engine>>
  /\ Flush

TimerFire ==
  /\ timers # <<>>
  /\ processingSteps' = <<>>
  /\ messages' = IF CanAdd(Head(timers).response)
                   THEN Append(messages, AnswerMessage(Head(timers)))
                   ELSE messages
  /\ timers' = Tail(timers)
  /\ UNCHANGED <<isTyping, currentSession, processingRef, call, net,
                 requests, engine>>
  /\ Flush

(* ------------------------ regenerate and clear ------------------------- *)

\* regenerateMessage(id of messages[k]) for a user message
Regenerate(k) ==
  /\ k \in 1..Len(messages)
  /\ messages[k].sender = "user"
  /\ messages' = SubSeq(messages, 1, k)
  /\ IF processingRef
       THEN /\ processingSteps' = <<>>
            /\ UNCHANGED <<isTyping, currentSession, processingRef, call,
                           net, timers, requests, engine>>
       ELSE /\ Len(requests) < MaxTurns
            /\ Admit(messages[k].content.v)
  /\ Flush

\* A refusal that still cuts history back (not what the code does)
RegenerateRefusedTruncates(k) ==
  /\ IF k \in 1..Len(messages) THEN messages[k].sender # "user" ELSE TRUE
  /\ messages' = IF k \in 1..Len(messages) THEN SubSeq(messages, 1, k - 1)
                 ELSE <<>>
  /\ processingSteps' = <<>>
  /\ UNCHANGED <<isTyping, currentSession, processingRef, call, net, timers,
                 requests, engine>>
  /\ Flush

\* regenerateMessage with an id that is not in history (k outside it) or
\* the id of a message that is not a user message: the early returns
RegenerateRefused(k) ==
  /\ IF k \in 1..Len(messages) THEN messages[k].sender # "user" ELSE TRUE
  /\ UNCHANGED vars

\* A clear that leaves the stored token (not what the code does)
clearChatKeepsStoredToken ==
  /\ messages' = <<>>
  /\ isTyping' = FALSE
  /\ processingSteps' = <<>>
  /\ currentSession' = Undefined
  /\ localStorage' = [chatwise_messages |-> <<>>,
                      chatwise_session_id |-> localStorage.chatwise_session_id]
  /\ UNCHANGED <<processingRef, call, net, timers, requests, engine>>

clearChat ==
  /\ messages' = <<>>
  /\ isTyping' = FALSE
  /\ processingSteps' = <<>>
  /\ currentSession' = Undefined
  /\ localStorage' = [chatwise_messages |-> <<>>, chatwise_session_id |-> Undefined]
  /\ UNCHANGED <<processingRef, call, net, timers, requests, engine>>

(* ------------------------------ start-up ------------------------------ *)

\* The page is loaded again: the hook is constructed from what the storage
\* holds; the invocation, its reader and the settle timers of the page
\* before are gone
Reload ==
  /\ messages' = getInitialMessages(localStorage.chatwise_messages)
  /\ isTyping' = FALSE
  /\ processingSteps' = <<>>
  /\ currentSession' = IF Truthy(localStorage.chatwise_session_id)
                         THEN localStorage.chatwise_session_id ELSE Undefined
  /\ processingRef' = FALSE
  /\ call' = NoCall
  /\ net' = NoNet
  /\ timers' = <<>>
  /\ UNCHANGED <<requests, engine>>
  /\ Flush

(* ---------------------------- specifications --------------------------- *)

\* The whole core: any interleaving of the caller's operations, the
\* network and the settle timers, chunks cut every Stride characters
Next ==
  \/ \E q \in Queries : SubmitAdmitted(q)
  \/ \E q \in Queries : SubmitRejected(q)
  \/ \E k \in 1..(MaxMessages + MaxTurns) : Regenerate(k)
  \/ \E k \in 0..(MaxMessages + MaxTurns) : RegenerateRefused(k)
  \/ clearChat
  \/ FetchReject
  \/ FetchStatus
  \/ FetchNoBody
  \/ \E d \in Served : FetchOk(d)
  \/ ChunkStride
  \/ StreamEnd
  \/ ReadFail
  \/ TimerFire

Spec == Init /\ [][Next]_vars

\* The whole core when every request is answered or fails, every stream
\* that has not brought a terminal frame ends or fails, and every settle
\* timer fires
ServedLive == {ServeStepThenAnswer, ServeStepOnly}

Respond ==
  FetchReject \/ FetchStatus \/ FetchNoBody \/ \E d \in ServedLive : FetchOk(d)
ReadEnds == StreamEnd \/ ReadFail

NextLive ==
  \/ \E q \in Queries : SubmitAdmitted(q)
  \/ \E q \in Queries : SubmitRejected(q)
  \/ \E k \in 1..(MaxMessages + MaxTurns) : Regenerate(k)
  \/ \E k \in 0..(MaxMessages + MaxTurns) : RegenerateRefused(k)
  \/ clearChat
  \/ Respond
  \/ ChunkStride
  \/ StreamEnd
  \/ ReadFail
  \/ TimerFire

SpecLive ==
  /\ Init /\ [][NextLive]_vars
  /\ WF_vars(Respond) /\ WF_vars(ReadEnds) /\ WF_vars(TimerFire)

\* The whole core with the page loaded again at any moment
NextReload ==
  \/ \E q \in Queries : SubmitAdmitted(q)
  \/ \E q \in Queries : SubmitRejected(q)
  \/ \E k \in 1..(MaxMessages + MaxTurns) : Regenerate(k)
  \/ clearChat
  \/ Respond
  \/ ChunkStride
  \/ StreamEnd
  \/ ReadFail
  \/ TimerFire
  \/ Reload

SpecReload == Init /\ [][NextReload]_vars

\* One turn on its own: one submit, any body, chunks cut anywhere
NextStream ==
  \/ requests = <<>> /\ \E q \in Queries : SubmitAdmitted(q)
  \/ \E d \in ServedStream : FetchOk(d)
  \/ ChunkAnywhere
  \/ StreamEnd
  \/ ReadFail
  \/ TimerFire

SpecStream == Init /\ [][NextStream]_vars

\* One turn on its own whose body carries lines that are no frames
NextDecode ==
  \/ requests = <<>> /\ \E q \in Queries : SubmitAdmitted(q)
  \/ \E d \in ServedDecode : FetchOk(d)
  \/ ChunkAnywhere
  \/ StreamEnd
  \/ ReadFail
  \/ TimerFire

SpecDecode == Init /\ [][NextDecode]_vars

\* One turn on its own whose body carries lines the decoder repairs
NextRepair ==
  \/ requests = <<>> /\ \E q \in Queries : SubmitAdmitted(q)
  \/ \E d \in ServedRepair : FetchOk(d)
  \/ ChunkAnywhere
  \/ StreamEnd
  \/ ReadFail
  \/ TimerFire

SpecRepair == Init /\ [][NextRepair]_vars

\* One turn on its own whose terminal frame carries citations
NextCited ==
  \/ requests = <<>> /\ \E q \in Queries : SubmitAdmitted(q)
  \/ \E d \in ServedCited : FetchOk(d)
  \/ ChunkAnywhere
  \/ StreamEnd
  \/ ReadFail
  \/ TimerFire

SpecCited == Init /\ [][NextCited]_vars

(* ------------------------ what the frames say -------------------------- *)

Last(seq) == seq[Len(seq)]

IsStep(f) == f.kind = "processing_step"
IsAnswerFrame(f) == f.kind = "complete"

\* Index of the first terminal frame, 0 when there is none
RECURSIVE FirstAnswer(_, _)
FirstAnswer(frames, i) ==
  IF i > Len(frames) THEN 0
  ELSE IF IsAnswerFrame(frames[i]) THEN i ELSE FirstAnswer(frames, i + 1)

\* Offset, in the text on the wire, of the closing brace of the first
\* terminal frame; 0 when there is none
TerminalEnd(frames) ==
  LET j == FirstAnswer(frames, 1) IN
  IF j = 0 THEN 0 ELSE Len(Wire(SubSeq(frames, 1, j))) - 1

\* The body carries its first terminal frame whole
HasTerminal(n) ==
  n.open /\ TerminalEnd(n.frames) > 0 /\ Len(n.body) >= TerminalEnd(n.frames)

\* A valid multi-frame stream: progress frames, then one terminal frame
ValidStream(n) ==
  /\ HasTerminal(n)
  /\ FirstAnswer(n.frames, 1) = Len(n.frames)

StepTexts(frames) ==
  LET steps == SelectSeq(frames, IsStep) IN
  [i \in 1..Len(steps) |-> Str(steps[i].text)]

StepMessages(steps) == [i \in 1..Len(steps) |-> steps[i].message]

IsAnswer(m) == m.sender = "bot" /\ m.content \notin ErrorTexts

TurnOver == call.pc = "idle" /\ requests # <<>>

(* ------------------------------- claims -------------------------------- *)

\* C1: at most one turn is between its admission by the gate and the append
\* of its bot message (a pending settle timer is a turn not yet appended).
C1_OneTurnUntilAppend ==
  (IF processingRef THEN 1 ELSE 0) + Len(timers) <= 1

\* C2: for a valid stream, whatever the cuts, the frames dispatched (the
\* progress steps collected and the terminal data handed to the settle
\* timer) are those of the same body decoded as one chunk.
WholeDecode(body, eng) ==
  LET W == ProcessChunk(body, <<>>, <<>>, <<>>, Undefined, Undefined, eng) IN
  TimerOf(W.responseData, MarkLast(W.collectedSteps))

C2_CutsDoNotMatter ==
  (TurnOver /\ ValidStream(net) /\ timers # <<>>)
    => Head(timers) = WholeDecode(net.body, engine)

\* C3: a submit while a turn is in flight changes nothing of the core state.
C3_RejectedSubmitIsNoOp ==
  [][(\E q \in Queries : SubmitRejected(q))
       => UNCHANGED <<messages, processingSteps, isTyping, currentSession,
                      processingRef, timers, localStorage>>]_vars

\* C4: a submit while a turn is in flight leaves the turn's invocation, its
\* stream, the progress list and the pending answers as they were, and the
\* answer a settle timer appends is the one the turn handed to it, whatever
\* was submitted meanwhile.
C4_SubmitLeavesTurnAlone ==
  [][/\ (\E q \in Queries : SubmitRejected(q))
          => UNCHANGED <<call, net, processingSteps, timers, currentSession>>
     /\ (\E q \in Queries : SubmitAdmitted(q)) => UNCHANGED timers
     /\ (Len(timers') < Len(timers) /\ CanAdd(Head(timers).response))
          => messages' = Append(messages, AnswerMessage(Head(timers)))]_vars

C4_Witness ==
  /\ processingRef
  /\ Len(requests) = 1
  /\ call.collectedSteps # <<>>
  /\ Len(messages) = 2
  /\ messages[1].sender = "user" /\ messages[2].sender = "user"

\* C5: after a turn whose stream is N progress frames and a terminal frame,
\* history is the user turn and one bot message with the terminal frame's
\* response and the N progress messages in order; progress list empty,
\* typing off.
C5_TurnResult ==
  (TurnOver /\ ValidStream(net) /\ timers = <<>>)
    => /\ Len(messages) = 2
       /\ messages[1] = UserMessage(requests[1].user_query)
       /\ messages[2].sender = "bot"
       /\ messages[2].content = Str(Last(net.frames).text)
       /\ StepMessages(messages[2].processingSteps) = StepTexts(net.frames)
       /\ processingSteps = <<>>
       /\ ~isTyping

\* C6: a stream that ends without a whole terminal frame leaves exactly one
\* bot message, the 'no complete response' one, without progress notes, and
\* an empty progress list.
C6_IncompleteStream ==
  (TurnOver /\ net.open /\ ~HasTerminal(net))
    => /\ messages = <<UserMessage(requests[1].user_query),
                       ErrorMessage(ErrIncomplete)>>
       /\ Last(messages).processingSteps = <<>>
       /\ processingSteps = <<>>
       /\ timers = <<>>

C6_Witness ==
  /\ TurnOver
  /\ net.open
  /\ Len(SelectSeq(net.frames, IsStep)) = 2
  /\ ~HasTerminal(net)
  /\ Last(messages) = ErrorMessage(ErrIncomplete)

\* C7: every way a turn fails (fetch rejects, failure status, no body,
\* reader failure, stream end without terminal frame) turns typing off,
\* empties the progress list, appends exactly one synthesized bot message
\* and releases the gate.
TurnFails == call.pc # "idle" /\ call'.pc = "idle" /\ timers' = timers

C7_FailureEndsTurn ==
  [][(FetchReject \/ FetchStatus \/ FetchNoBody \/ ReadFail \/ StreamEnd
        \/ TurnFails)
       => /\ TurnFails
          /\ ~isTyping'
          /\ processingSteps' = <<>>
          /\ \E text \in ErrorTexts :
               messages' = Append(messages, ErrorMessage(text))
          /\ ~processingRef']_vars

C7_Witness ==
  /\ Len(messages) = 4
  /\ messages[2] = ErrorMessage(ErrEmptyBody)
  /\ messages[3].sender = "user"
  /\ messages[4] = ErrorMessage(ErrIncomplete)
  /\ ~processingRef /\ ~isTyping /\ processingSteps = <<>>

\* C8: an answer is pending or in history only when the reader has received
\* the terminal frame whole; never from a prefix of it.
C8_AnswerNeedsWholeTerminal ==
  (timers # <<>> \/ \E i \in 1..Len(messages) : IsAnswer(messages[i]))
    => HasTerminal(net) /\ net.pos >= TerminalEnd(net.frames)

C8_Witness ==
  /\ call.pc = "read"
  /\ net.frames = ServeCutAnswer.frames
  /\ net.pos = Len(net.body)
  /\ Len(call.buffer) > Len(kType) + Len(kComplete)
  /\ timers = <<>>

\* C9: the retained session token is the first one a terminal frame
\* supplied; no later terminal frame changes it.
RECURSIVE FirstSid(_, _)
FirstSid(frames, i) ==
  IF i > Len(frames) THEN Undefined
  ELSE IF IsAnswerFrame(frames[i]) /\ frames[i].sid # <<>>
    THEN Str(frames[i].sid) ELSE FirstSid(frames, i + 1)

C9_TokenSticky ==
  [][/\ (currentSession # Undefined) => currentSession' = currentSession
     /\ (currentSession = Undefined /\ currentSession' # Undefined)
          => currentSession' = FirstSid(net'.frames, 1)]_vars

\* C10: a request leaves exactly when a turn is admitted, one per turn, and
\* it carries the turn's content and the retained session token (none when
\* none is retained); a rejected submission sends nothing.
Admitted == ~processingRef /\ processingRef'

C10_OneRequestPerTurn ==
  [][IF Admitted
       THEN /\ Len(requests') = Len(requests) + 1
            /\ SubSeq(requests', 1, Len(requests)) = requests
            /\ Last(requests').session_id = currentSession
            /\ Last(requests').user_query = call'.query
       ELSE requests' = requests]_vars

C10_Witness ==
  /\ Len(requests) = 2
  /\ requests[1].session_id = Undefined
  /\ requests[2].session_id = Str(<<"s", "1">>)

\* C11: regenerate on user turn k leaves history as the entries through k,
\* and runs exactly one new turn with k's content, whose bot message is the
\* only one still to be appended.
C11_RegenerateRunsOneTurn ==
  [][\A k \in 1..Len(messages) :
       Regenerate(k)
         => /\ messages' = SubSeq(messages, 1, k)
            /\ Admitted
            /\ Len(requests') = Len(requests) + 1
            /\ Last(requests').user_query = messages[k].content.v
            /\ timers' = <<>>]_vars

\* C12: clear between a turn's admission and the append of its bot message
\* leaves history, the session token, the typing indicator and the progress
\* list as they were.
C12_ClearOnlyWhenIdle ==
  [][(clearChat /\ (processingRef \/ timers # <<>>))
       => UNCHANGED <<messages, currentSession, isTyping, processingSteps>>]_vars

\* C13: clear with no turn in flight empties history and the progress list
\* and drops the session token from memory and from the store; from then on
\* no token comes back before the next admission, whose request carries no
\* session_id.
Idle == ~processingRef /\ timers = <<>>

C13_ClearAtIdle ==
  [][/\ (clearChat /\ Idle)
          => /\ messages' = <<>>
             /\ processingSteps' = <<>>
             /\ currentSession' = Undefined
             /\ localStorage' = [chatwise_messages |-> <<>>,
                                 chatwise_session_id |-> Undefined]
     /\ (Idle /\ currentSession = Undefined /\ ~Admitted)
          => /\ currentSession' = Undefined
             /\ localStorage'.chatwise_session_id
                  = localStorage.chatwise_session_id
     /\ (Idle /\ currentSession = Undefined /\ Admitted)
          => Last(requests').session_id = Undefined]_vars

C13_Witness ==
  /\ Idle
  /\ requests # <<>>
  /\ HasTerminal(net) /\ net.pos >= TerminalEnd(net.frames)
  /\ messages = <<>>
  /\ currentSession = Undefined
  /\ localStorage.chatwise_session_id = Undefined

\* C17: every step leaves the old history as a prefix of the new one,
\* except clear, which empties it, and regenerate, which cuts it back to a
\* prefix ending at a user turn.
IsPrefix(s, t) == Len(s) <= Len(t) /\ SubSeq(t, 1, Len(s)) = s

C17_HistoryAppendOnly ==
  [][\/ IsPrefix(messages, messages')
     \/ clearChat /\ messages' = <<>>
     \/ \E k \in 1..Len(messages) :
          /\ Regenerate(k)
          /\ messages[k].sender = "user"
          /\ messages' = SubSeq(messages, 1, k)]_vars

C17_Witness ==
  /\ Len(messages) = 3
  /\ IsAnswer(messages[2])
  /\ messages[3].sender = "user"
  /\ processingRef

\* C18: a stream closing without a terminal frame surfaces as the 'no
\* complete response' message, a response without a body as the 'empty
\* response' message, and a transport failure (fetch or reader rejecting)
\* as neither of the two.
C18_DistinctFailureMessages ==
  [][/\ StreamEnd => Last(messages') = ErrorMessage(ErrIncomplete)
     /\ FetchNoBody => Last(messages') = ErrorMessage(ErrEmptyBody)
     /\ (FetchReject \/ ReadFail)
          => /\ Last(messages').sender = "bot"
             /\ Last(messages').content \notin {ErrIncomplete, ErrEmptyBody}
     /\ ErrIncomplete # ErrEmptyBody]_vars

C18_Witness ==
  /\ Len(messages) = 4
  /\ messages[2] = ErrorMessage(ErrIncomplete)
  /\ messages[4] = ErrorMessage(ErrGeneric)
  /\ net = NoNet

\* The raw lines of a body
IsRaw(f) == f.kind = "raw"
RawLines(n) == SelectSeq(n.frames, IsRaw)

\* The bot message of a finished turn is the answer of the terminal frame
\* with the well-formed progress frames attached in order
AnsweredAsSent ==
  /\ Len(messages) = 2
  /\ messages[2].sender = "bot"
  /\ messages[2].content = Str(Last(net.frames).text)
  /\ StepMessages(messages[2].processingSteps) = StepTexts(net.frames)

\* C14: lines before the terminal frame that can be neither parsed nor
\* repaired are dropped: the turn finishes with the terminal frame's answer
\* and the well-formed progress frames in order, and no error message.
Undecodable(f, eng) ==
  LET line == sanitizeLine(trim(f.text))
      r == JSONparse(line) IN
  Throws(r) /\ Repair(line, r, eng) = <<>>

DecodeMisses(n, eng) ==
  /\ ValidStream(n)
  /\ RawLines(n) # <<>>
  /\ \A i \in 1..Len(n.frames) : IsRaw(n.frames[i]) => Undecodable(n.frames[i], eng)

C14_DecodeMissIsDropped ==
  (TurnOver /\ timers = <<>> /\ DecodeMisses(net, engine)) => AnsweredAsSent

\* C15: a progress frame whose final string lacks its closing quote,
\* followed by a well-formed terminal frame, is dispatched as a progress
\* step (one step is attached to the answer), and the terminal frame is
\* decoded as sent.
C15_MissingQuoteRecovered ==
  (TurnOver /\ timers = <<>> /\ net.open
     /\ net.frames = ServeNoClosingQuote.frames)
    => /\ Len(messages) = 2
       /\ messages[2].content = Str(Last(net.frames).text)
       /\ Len(messages[2].processingSteps) = 1
       /\ messages[2].processingSteps[1].message # Undefined

\* C19: a well-formed frame of another kind parses without error and is
\* ignored: once it has arrived the buffer is empty and the steps collected
\* are those of the frames before it, and the turn ends with the answer, the
\* token and the progress frames of the stream without it.
IsOtherKind(f) ==
  LET r == JSONparse(sanitizeLine(trim(f.text))) IN
  /\ ~Throws(r)
  /\ r.val.t = "obj"
  /\ Prop(r.val, kType) \notin {Str(kProcessingStep), Str(kComplete)}

OtherKinds(n) ==
  /\ ValidStream(n)
  /\ RawLines(n) # <<>>
  /\ \A i \in 1..Len(n.frames) : IsRaw(n.frames[i]) => IsOtherKind(n.frames[i])

C19_OtherKindIgnored ==
  OtherKinds(net) =>
    /\ \A j \in 1..Len(net.frames) :
         (/\ IsRaw(net.frames[j])
          /\ call.pc = "read"
          /\ net.pos \in {Len(Wire(SubSeq(net.frames, 1, j))) - 1,
                          Len(Wire(SubSeq(net.frames, 1, j)))})
           => /\ call.buffer = <<>>
              /\ StepMessages(call.collectedSteps)
                   = StepTexts(SubSeq(net.frames, 1, j))
              /\ processingSteps = call.collectedSteps
              /\ currentSession = Undefined
              /\ timers = <<>>
    /\ (TurnOver /\ timers = <<>>)
         => /\ AnsweredAsSent
            /\ currentSession = Str(Last(net.frames).sid)

C19_Witness ==
  /\ OtherKinds(net)
  /\ TurnOver /\ timers = <<>>
  /\ Len(messages) = 2
  /\ Len(messages[2].processingSteps) = 2

\* C20: when the stream ends with text after the last newline and no
\* terminal frame before it, the turn ends with an answer if that text is a
\* well-formed terminal frame, and as an incomplete stream otherwise.
LeftOver(n) == trim(Last(split(n.body)))

LeftOverIsTerminal(n) ==
  LET r == JSONparse(sanitizeLine(LeftOver(n))) IN
  ~Throws(r) /\ Prop(r.val, kType) = Str(kComplete)

EndsInLeftOver(n) ==
  /\ n.open
  /\ LeftOver(n) # <<>>
  /\ \A i \in 1..(Len(n.frames) - 1) : ~IsAnswerFrame(n.frames[i])

C20_LeftOverAtStreamEnd ==
  (TurnOver /\ EndsInLeftOver(net))
    => IF LeftOverIsTerminal(net)
         THEN /\ Len(messages) + Len(timers) = 2
              /\ \A i \in 1..Len(messages) :
                   messages[i].sender = "bot" => IsAnswer(messages[i])
         ELSE /\ messages = <<UserMessage(requests[1].user_query),
                              ErrorMessage(ErrIncomplete)>>
              /\ timers = <<>>

\* C16: when requests are answered or fail, streams end or fail and settle
\* timers fire, a held gate leads to the gate released with typing off and
\* the progress list empty, and a progress list that is not empty leads to
\* an empty one.
AtRest == ~processingRef /\ ~isTyping /\ processingSteps = <<>>

C16_TurnsReturnToIdle ==
  /\ processingRef ~> AtRest
  /\ (processingSteps # <<>>) ~> (processingSteps = <<>>)

C16_Witness ==
  /\ AtRest /\ timers = <<>>
  /\ Len(messages) = 4
  /\ IsAnswer(messages[2])
  /\ messages[4] = ErrorMessage(ErrUnreachable)

\* C21: every progress step attached to the answer of a stream of N >= 1
\* progress frames and a terminal frame is marked completed.
C21_AttachedStepsCompleted ==
  (TurnOver /\ ValidStream(net) /\ timers = <<>> /\ Len(messages) = 2)
    => \A i \in 1..Len(messages[2].processingSteps) :
         messages[2].processingSteps[i].completed

\* C22: typing is on for as long as a turn's answer waits for its settle
\* timer to append it.
C22_TypingThroughSettle == timers # <<>> => isTyping

\* C23: while a turn holds the gate, no submit, regenerate, clear or settle
\* timer changes the progress list.
C23_OnlyReaderWritesSteps ==
  [][(/\ processingRef
      /\ \/ \E q \in Queries : SubmitRejected(q)
         \/ \E k \in 1..Len(messages) : Regenerate(k)
         \/ clearChat
         \/ TimerFire)
       => UNCHANGED processingSteps]_vars

\* C24: when frames follow the first terminal frame of a stream, the answer,
\* the attached progress list and the retained token are those of the
\* stream up to that frame.
C24_NothingAfterTerminal ==
  LET j == FirstAnswer(net.frames, 1) IN
  (TurnOver /\ HasTerminal(net) /\ j < Len(net.frames) /\ timers # <<>>)
    => /\ Head(timers).response = Str(net.frames[j].text)
       /\ StepMessages(Head(timers).collectedSteps)
            = StepTexts(SubSeq(net.frames, 1, j))
       /\ Head(timers).citations = <<>>
       /\ currentSession = Str(net.frames[j].sid)

\* C28: regenerate with an id that is not in history, or with the id of a
\* bot message, leaves history, progress list, typing, token and gate as
\* they were and sends no request.
C28_RefusedRegenerateIsNoOp ==
  [][\A k \in 0..(MaxMessages + MaxTurns) :
       RegenerateRefused(k)
         => UNCHANGED <<messages, processingSteps, isTyping, currentSession,
                        processingRef, requests, localStorage>>]_vars

C28_Witness ==
  /\ Idle
  /\ Len(messages) = 2
  /\ messages[2].sender = "bot"
  /\ ENABLED RegenerateRefused(2)
  /\ ENABLED RegenerateRefused(3)

\* C29: regenerate on a user turn while the gate is held leaves history
\* and the progress list of the in-flight turn as they were.
C29_RegenerateInFlightRejected ==
  [][(processingRef /\ \E k \in 1..Len(messages) : Regenerate(k))
       => UNCHANGED <<messages, processingSteps>>]_vars

\* C30: admission turns typing on and empties the progress list, the steps
\* collected and the buffer; while the gate is held the progress list shows
\* only steps this turn has collected.
IsSuffix(s, t) ==
  Len(s) <= Len(t) /\ SubSeq(t, Len(t) - Len(s) + 1, Len(t)) = s

C30_AdmissionClearsSteps ==
  [][/\ Admitted
          => /\ isTyping'
             /\ processingSteps' = <<>>
             /\ call'.collectedSteps = <<>>
             /\ call'.buffer = <<>>
     /\ processingRef' => IsSuffix(processingSteps', call'.collectedSteps)]_vars

C30_Witness ==
  /\ Len(requests) = 2
  /\ processingRef
  /\ processingSteps # <<>>
  /\ Len(messages) >= 2
  /\ IsAnswer(messages[2])
  /\ messages[2].processingSteps # <<>>

\* C25: a progress frame that fails strict parsing and that the excision of
\* the stray characters turns into a valid progress frame is dispatched once,
\* like a clean frame: the turn ends with the terminal frame's answer and
\* that one step attached.
C25_RepairedFrameDispatched ==
  (TurnOver /\ timers = <<>> /\ net.frames = ServeTwoStray.frames)
    => /\ Len(messages) = 2
       /\ messages[2].content = Str(Last(net.frames).text)
       /\ StepMessages(messages[2].processingSteps) = <<Str(<<"c">>)>>

\* C26: whatever chunk comes next, the loop over its lines makes at most two
\* passes over any one line: one that fails and is repaired, one that
\* dispatches the repaired line.
C26_ChunkTerminates ==
  (call.pc = "read" /\ net.open)
    => \A n \in 0..(Len(net.body) - net.pos) :
         Passes(Lines(SubSeq(net.body, net.pos + 1, net.pos + n), call.buffer),
                1, 1, engine) <= 2

C26_Witness ==
  /\ engine = "SpiderMonkey"
  /\ call.pc = "read"
  /\ net.frames = ServeTwoStray.frames
  /\ StepMessages(call.collectedSteps) = <<Str(<<"c">>)>>
  /\ Passes(Lines(SubSeq(net.body, 1, net.pos), <<>>), 1, 1, engine) = 2

\* C27: a line of characters without an opening brace followed by a
\* well-formed frame parses to that frame, and whatever the cuts the turn
\* hands the settle timer what the stream without those characters gives,
\* and retains the same token.
C27_PrefixTrimmed ==
  /\ \A d \in ServedPrefixed :
       JSONparse(sanitizeLine(trim(d.frames[1].text)))
         = JSONparse(ProgressFrame(<<"c">>))
  /\ (TurnOver /\ timers # <<>> /\ \E d \in ServedPrefixed : net.frames = d.frames)
       => /\ Head(timers) = WholeDecode(ServeStepAnswer.body, engine)
          /\ Len(Head(timers).collectedSteps) = 1
          /\ currentSession = Str(<<"s", "1">>)

C27_Witness ==
  /\ TurnOver /\ timers = <<>>
  /\ net.frames = ServeKeywordPrefix.frames
  /\ Len(messages) = 2
  /\ StepMessages(messages[2].processingSteps) = <<Str(<<"c">>)>>

\* C31: while a turn holds the gate, a step either leaves the progress list
\* as it is, or appends not-completed steps at its end, or (the terminal
\* frame) appends such steps and marks the last one completed, or the turn
\* fails; nothing else is removed, reordered or marked.
NotCompleted(steps) == \A i \in 1..Len(steps) : ~steps[i].completed

C31_StepsOnlyAppended ==
  [][processingRef
       => \/ /\ IsPrefix(processingSteps, processingSteps')
             /\ NotCompleted(SubSeq(processingSteps', Len(processingSteps) + 1,
                                     Len(processingSteps')))
          \/ /\ ~processingRef'
             /\ timers' # timers
             /\ Len(processingSteps') >= Len(processingSteps)
             /\ \A i \in 1..(Len(processingSteps') - 1) :
                  /\ i <= Len(processingSteps)
                       => processingSteps'[i] = processingSteps[i]
                  /\ ~processingSteps'[i].completed
             /\ processingSteps' # <<>> => Last(processingSteps').completed
          \/ TurnFails]_vars

\* C32: in every state of the read loop an empty chunk dispatches nothing
\* and leaves the buffer, the steps collected and the progress list as they
\* are, so that any chunk that follows is decoded as if the empty chunk had
\* not come.
AfterEmptyChunk ==
  ProcessChunk(<<>>, call.buffer, call.collectedSteps, processingSteps,
               currentSession, call.snap, engine)

C32_EmptyChunkKeepsBuffer ==
  (call.pc = "read" /\ net.open)
    => /\ AfterEmptyChunk.currentBuffer = call.buffer
       /\ AfterEmptyChunk.collectedSteps = call.collectedSteps
       /\ AfterEmptyChunk.processingSteps = processingSteps
       /\ AfterEmptyChunk.currentSession = currentSession
       /\ ~AfterEmptyChunk.isComplete
       /\ \A n \in 1..(Len(net.body) - net.pos) :
            LET chunk == SubSeq(net.body, net.pos + 1, net.pos + n) IN
            ProcessChunk(chunk, AfterEmptyChunk.currentBuffer,
                         AfterEmptyChunk.collectedSteps,
                         AfterEmptyChunk.processingSteps,
                         AfterEmptyChunk.currentSession, call.snap, engine)
              = ProcessChunk(chunk, call.buffer, call.collectedSteps,
                             processingSteps, currentSession, call.snap, engine)

C32_Witness ==
  /\ call.pc = "read" /\ net.open
  /\ net.frames = ServeScenario.frames
  /\ Len(call.collectedSteps) = 2
  /\ call.buffer # <<>>
  /\ AfterEmptyChunk.currentBuffer = call.buffer
  /\ ProcessChunk(SubSeq(net.body, net.pos + 1, Len(net.body)),
                  AfterEmptyChunk.currentBuffer, call.collectedSteps,
                  processingSteps, currentSession, call.snap, engine).isComplete

\* C33: the bot message of a terminal frame carries the frame's citations
\* in their order, duplicates kept, and is flagged as cited exactly when
\* there is one; a synthesized error message carries no citation, no flag
\* and no progress step.
Citation(name) == Obj(<<[k |-> kCompanyName, v |-> Str(name)]>>)
CitationsSent(n) ==
  LET names == IF n.frames = ServeCited.frames THEN CitedNames
               ELSE IF n.frames = ServeCitedTwice.frames THEN CitedTwice
               ELSE <<>>
  IN [i \in 1..Len(names) |-> Citation(names[i])]

C33_CitationsCarried ==
  /\ \A i \in 1..Len(messages) :
       messages[i].content \in ErrorTexts
         => /\ messages[i].citations = <<>>
            /\ ~messages[i].hasCitations
            /\ messages[i].processingSteps = <<>>
  /\ (TurnOver /\ timers = <<>>
        /\ net.frames \in {ServeCited.frames, ServeCitedTwice.frames,
                           ServeCitedNone.frames})
       => /\ Len(messages) = 2
          /\ messages[2].content = Str(<<"o", "k">>)
          /\ messages[2].citations = CitationsSent(net)
          /\ messages[2].hasCitations = (CitationsSent(net) # <<>>)

C33_Witness ==
  /\ TurnOver /\ timers = <<>>
  /\ net.frames = ServeCitedTwice.frames
  /\ Len(messages) = 2
  /\ Len(messages[2].citations) = 2
  /\ messages[2].citations[1] = messages[2].citations[2]
  /\ messages[2].hasCitations

\* C34: the storage holds the history and the token of the state after
\* every step (no token after clear), and a load of the page restores that
\* history and token with typing off and an empty progress list.
Persisted ==
  /\ localStorage.chatwise_messages = messages
  /\ localStorage.chatwise_session_id = currentSession

C34_StoreTracksState ==
  /\ []Persisted
  /\ [][/\ clearChat => localStorage'.chatwise_session_id = Undefined
        /\ Reload => /\ messages' = messages
                      /\ currentSession' = currentSession
                      /\ ~isTyping'
                      /\ processingSteps' = <<>>]_vars

C34_Witness ==
  /\ net = NoNet /\ call = NoCall
  /\ Len(requests) = 1
  /\ Len(messages) = 2
  /\ IsAnswer(messages[2])
  /\ messages[2].processingSteps # <<>>
  /\ currentSession # Undefined
  /\ Persisted

\* C35: history starts with a user message and alternates: odd entries are
\* user messages, even entries bot messages.
C35_HistoryAlternates ==
  \A i \in 1..Len(messages) :
    messages[i].sender = (IF i % 2 = 1 THEN "user" ELSE "bot")

\* C36: when requests are answered or fail, streams end or fail and settle
\* timers fire, a history with more user messages than bot messages leads to
\* one with a bot message for every user message.
Sent(sender) ==
  Cardinality({i \in 1..Len(messages) : messages[i].sender = sender})

Unanswered == Sent("user") > Sent("bot")

C36_EveryUserMessageAnswered == Unanswered ~> ~Unanswered

\* C37: typing is on only while the gate is held.
C37_TypingOnlyInFlight == isTyping => processingRef

C37_Witness ==
  /\ isTyping /\ processingRef
  /\ Len(requests) = 2
  /\ Len(messages) = 3
  /\ messages[2].sender = "bot"

====
